---- MODULE Spec2Model ----
(***************************************************************************)
(* LightningArbitrage: the detection cycle of server/routes.ts             *)
(* (fetchCryptoPrices, calculateArbitrageOpportunities, the execute,       *)
(* refresh and settings endpoints, the 30 s timer) over the                *)
(* DatabaseStorage of server/storage.ts and the column types of            *)
(* shared/schema.ts.                                                       *)
(*                                                                         *)
(* Numbers.  A JavaScript number is modelled as an exact rational          *)
(* (numerator over denominator); a Postgres numeric(p, s) column as a      *)
(* record [w, f]: whole part and the s fractional digits, rounded half up  *)
(* on insert as Postgres does.  Prices are whole dollars, the clock is in  *)
(* milliseconds.                                                           *)
(***************************************************************************)
EXTENDS Integers, Sequences, FiniteSets, TLC

----------------------------------------------------------------------------
(* Bounds of the model *)

\* exchanges of initializeDefaultData that are present (the code seeds 6)
NumExchanges == 3
\* trading pairs of initializeDefaultData that are present (the code seeds 5)
NumPairs == 1
\* coins of coinMapping that the price source is asked for (the code asks 5)
NumCoins == 1
\* calculateArbitrageOpportunities calls that can be in flight at once
MaxCycles == 2
\* rows the arbitrage_opportunities serial hands out
MaxOpps == 2
\* rows the transactions serial hands out
MaxTxs == 2
\* clock advances of one hour, and of one day
MaxHours == 2
MaxDays == 1
\* rows createTradingPair adds to the default trading pairs
MaxNewPairs == 2
\* requests to /api/settings that can be in flight at once
MaxSettingsCalls == 2
\* coins and trading pairs of the quote batches that mix valid and invalid quotes
NumQuoteCoins == 2

----------------------------------------------------------------------------
(* Program constants *)

OneHourMs == 60 * 60 * 1000
OneDayMs == 24 * 60 * 60 * 1000
tradeAmount == 1000
\* data[coinId].usd, the base price every exchange price is derived from
BasePrice == 100000
\* basePrice * variation for the values of (Math.random() - 0.5) * 0.04 that
\* are drawn: 0.501 %, 1.501 %, 1.6 % (all within -2 % .. +2 %)
Variations == {501, 1501, 1600}
\* the draws per exchange position: the last exchange quotes the base price
VariationsAt(k, drawn) == IF k = NumExchanges THEN {0} ELSE drawn
\* Math.random() * 10 + 2, the values drawn (dollars, within 2 .. 12)
GasEstimates == {2, 11}
\* Math.random() * 100 + 20, the values drawn (dollars, within 20 .. 120)
ActualProfits == {20, 70}
\* Math.random() * 10 + 2 of the execute endpoint
GasUsedValues == {3, 5}
\* req.params.opportunityId values that are sent: strings of decimal digits, as
\* the sequence of their digits ("1", "99" and "2147483648")
RequestedIds == {<<1>>, <<9, 9>>, <<2, 1, 4, 7, 4, 8, 3, 6, 4, 8>>}
\* data[coinId].usd values the price source answers with: a valid price, zero
\* and a negative price
UsdValues == {BasePrice, 0, 0 - BasePrice}

ExchangeNames == <<"QuickSwap", "SushiSwap", "Uniswap V3", "Balancer", "Curve", "1inch">>
PairSymbols == <<"BTC", "ETH", "MATIC", "WBTC", "LINK">>
coinMapping == <<"BTC", "ETH", "MATIC", "WBTC", "LINK">>

VARIABLES
  now,            \* Date.now() and the database clock, ms since the server started
  opps,           \* rows of arbitrage_opportunities
  nextOppId,      \* the serial of arbitrage_opportunities
  txs,            \* rows of transactions
  nextTxId,       \* the serial of transactions
  cyc,            \* the calls of calculateArbitrageOpportunities in flight
  skipped,        \* the cycle step taken last was the catch that logs a failed fetch
  pairs,          \* rows of trading_pairs
  nextPairId,     \* the serial of trading_pairs
  settings,       \* rows of bot_settings
  nextSettingsId, \* the serial of bot_settings
  calls,          \* the requests to /api/settings in flight
  res,            \* the response sent last by POST /api/execute or /api/settings
  interval,       \* the timer of setInterval is set (not cleared)
  closed          \* the close event of the HTTP server has been handled

pairVars == <<pairs, nextPairId>>
settingsVars == <<settings, nextSettingsId, calls>>
timerVars == <<interval, closed>>
vars == <<now, opps, nextOppId, txs, nextTxId, cyc, skipped, pairVars, settingsVars, res,
          timerVars>>

\* rows of the exchanges table, all active
exchangeRows == { [id |-> i, name |-> ExchangeNames[i], isActive |-> TRUE] : i \in 1..NumExchanges }
\* rows of the trading_pairs table after initializeDefaultData, all active
tradingPairRows == { [id |-> i, baseSymbol |-> PairSymbols[i], isActive |-> TRUE] : i \in 1..NumPairs }

\* a set of rows with distinct ids as the sequence ordered by id
RECURSIVE ById(_)
ById(S) ==
  IF S = {} THEN <<>>
  ELSE LET m == CHOOSE r \in S : \A q \in S : r.id <= q.id
       IN <<m>> \o ById(S \ {m})

getAllExchanges == ById({ e \in exchangeRows : e.isActive })
getAllTradingPairs == ById({ p \in pairs : p.isActive })

----------------------------------------------------------------------------
(* numeric(p, s) columns *)

RECURSIVE Pow10(_)
Pow10(k) == IF k = 0 THEN 1 ELSE 10 * Pow10(k - 1)

\* the first k fractional digits of r / den (0 <= r < den), as an integer
RECURSIVE FracDigits(_, _, _)
FracDigits(r, den, k) ==
  IF k = 0 THEN 0
  ELSE ((r * 10) \div den) * Pow10(k - 1) + FracDigits((r * 10) % den, den, k - 1)

\* what is left of r / den after k fractional digits
RECURSIVE FracRest(_, _, _)
FracRest(r, den, k) == IF k = 0 THEN r ELSE FracRest((r * 10) % den, den, k - 1)

\* num / den (both non-negative) stored in a numeric column of scale s: rounded
\* half up to s fractional digits (no value drawn here reaches the precision of
\* its column, where the insert would fail)
ToNumeric(num, den, s) ==
  LET w == num \div den
      f == FracDigits(num % den, den, s)
      up == IF 2 * FracRest(num % den, den, s) >= den THEN 1 ELSE 0
  IN IF f + up = Pow10(s) THEN [w |-> w + 1, f |-> 0] ELSE [w |-> w, f |-> f + up]

\* a < b for two numerics of one scale
NumLT(a, b) == a.w < b.w \/ (a.w = b.w /\ a.f < b.f)

----------------------------------------------------------------------------
(* JavaScript numbers as exact rationals [n, d] with d > 0 *)

Abs(x) == IF x < 0 THEN 0 - x ELSE x
Min(a, b) == IF a < b THEN a ELSE b

\* x > n / d (d > 0) for the JavaScript number x: a zero denominator is NaN
\* (0 / 0, greater than nothing) or an infinity; a negative one turns the
\* comparison of the products around
RatGT(x, n, d) ==
  IF x.d = 0 THEN x.n > 0
  ELSE IF x.d > 0 THEN x.n * d > n * x.d
  ELSE x.n * d < n * x.d

----------------------------------------------------------------------------
(* fetchCryptoPrices: one quote per coin of the response and active exchange *)

RECURSIVE Flatten(_)
Flatten(ss) == IF ss = <<>> THEN <<>> ELSE Head(ss) \o Flatten(Tail(ss))

\* data: coin index -> <<>> (the response lacks the coin) or <<usd>>; vari:
\* coin, exchange position -> BasePrice * variation, so that basePrice *
\* variation is that many times basePrice / BasePrice
BuildPrices(data, vari) ==
  LET exchanges == getAllExchanges
      ofCoin(i) ==
        IF data[i] # <<>>
        THEN LET basePrice == data[i][1]
             IN [k \in 1..Len(exchanges) |->
                   [symbol |-> coinMapping[i],
                    price |-> basePrice + (basePrice \div BasePrice) * vari[i][k],
                    exchange |-> exchanges[k].name]]
        ELSE <<>>
  IN Flatten([i \in DOMAIN data |-> ofCoin(i)])

----------------------------------------------------------------------------
(* calculateArbitrageOpportunities: the loops between the awaits *)

NoExchange == [id |-> 0, name |-> "", isActive |-> FALSE]

\* exchanges.findIndex in the place of find: the position, from 0, as the id
findIndex(exchanges, name) ==
  LET hits == { i \in DOMAIN exchanges : exchanges[i].name = name }
  IN IF hits = {} THEN NoExchange
     ELSE LET first == CHOOSE i \in hits : \A j \in hits : i <= j
          IN [exchanges[first] EXCEPT !.id = first - 1]

\* exchanges.find(e => e.name === name)
find(exchanges, name) ==
  LET hits == { i \in DOMAIN exchanges : exchanges[i].name = name }
  IN IF hits = {} THEN NoExchange
     ELSE exchanges[CHOOSE i \in hits : \A j \in hits : i <= j]

\* the inner loop starting at 1 instead of i + 1: every ordering of two indexes
RECURSIVE IndexPairsBothOrders(_, _, _)
IndexPairsBothOrders(i, j, n) ==
  IF i > n THEN <<>>
  ELSE IF j > n THEN IndexPairsBothOrders(i + 1, 1, n)
  ELSE (IF i = j THEN <<>> ELSE <<<<i, j>>>>) \o IndexPairsBothOrders(i, j + 1, n)

\* the index pairs i < j <= n in the order of the two for loops
RECURSIVE IndexPairs(_, _, _)
IndexPairs(i, j, n) ==
  IF i >= n THEN <<>>
  ELSE IF j > n THEN IndexPairs(i + 1, i + 2, n)
  ELSE <<<<i, j>>>> \o IndexPairs(i, j + 1, n)

\* the margin taken over the absolute value of the lower price
ProfitMarginOfAbs(priceA, priceB) ==
  [n |-> Abs(priceA.price - priceB.price) * 100, d |-> Abs(Min(priceA.price, priceB.price))]

\* (priceDiff / lowerPrice) * 100
ProfitMarginOf(priceA, priceB) ==
  [n |-> Abs(priceA.price - priceB.price) * 100, d |-> Min(priceA.price, priceB.price)]

\* the profit taken from the margin as the column profit_margin holds it:
\* (two decimals of the margin / 100) * tradeAmount
EstimatedProfitOfStoredMargin(priceA, priceB) ==
  LET profitMargin == ProfitMarginOf(priceA, priceB)
      stored == ToNumeric(profitMargin.n, profitMargin.d, 2)
  IN [n |-> (stored.w * 100 + stored.f) * tradeAmount, d |-> 100 * 100]

\* (priceDiff / lowerPrice) * tradeAmount
EstimatedProfitOf(priceA, priceB) ==
  [n |-> Abs(priceA.price - priceB.price) * tradeAmount, d |-> Min(priceA.price, priceB.price)]

\* the filter left out
PassesFilterNone(profitMargin) == profitMargin.n >= 0

\* the filter taken from the stored settings: profitMargin > minProfitThreshold
PassesFilterOfSettings(profitMargin) ==
  IF settings = {} THEN RatGT(profitMargin, 1, 2)
  ELSE \A row \in settings :
         RatGT(profitMargin, row.minProfitThreshold.w * 100 + row.minProfitThreshold.f, 100)

\* profitMargin > 0.5
PassesFilter(profitMargin) == RatGT(profitMargin, 1, 2)

\* the body of the inner loop up to the insert: does the pair of quotes reach
\* createArbitrageOpportunity
IsCandidate(priceA, priceB, exchanges) ==
  /\ priceA.exchange # priceB.exchange
  /\ PassesFilter(ProfitMarginOf(priceA, priceB))
  /\ find(exchanges, priceA.exchange) # NoExchange
  /\ find(exchanges, priceB.exchange) # NoExchange

\* the quote pairs of one trading pair that reach the insert, in loop order
CandidatesOfPair(pair, prices, exchanges) ==
  LET pairPrices == SelectSeq(prices, LAMBDA p : p.symbol = pair.baseSymbol)
      ij == IndexPairs(1, 2, Len(pairPrices))
      hit(k) == IsCandidate(pairPrices[ij[k][1]], pairPrices[ij[k][2]], exchanges)
      one(k) == [pair |-> pair, priceA |-> pairPrices[ij[k][1]], priceB |-> pairPrices[ij[k][2]]]
  IN Flatten([k \in 1..Len(ij) |-> IF hit(k) THEN <<one(k)>> ELSE <<>>])

\* every insert one cycle makes, in order
Candidates(prices, tradingPairs) ==
  LET exchanges == getAllExchanges
  IN Flatten([p \in 1..Len(tradingPairs) |-> CandidatesOfPair(tradingPairs[p], prices, exchanges)])

\* the margin test left out
IsExecutableGasOnly(profitMargin, gasEstimate, estimatedProfit) ==
  gasEstimate * estimatedProfit.d < estimatedProfit.n

\* profitMargin > 1.5 && gasEstimate < estimatedProfit
IsExecutable(profitMargin, gasEstimate, estimatedProfit) ==
  /\ RatGT(profitMargin, 3, 2)
  /\ gasEstimate * estimatedProfit.d < estimatedProfit.n

\* the row createArbitrageOpportunity stores for a candidate: the values of the
\* insert in the column types of arbitrage_opportunities
OpportunityRow(cand, gasEstimate, id, createdAt) ==
  LET exchanges == getAllExchanges
      profitMargin == ProfitMarginOf(cand.priceA, cand.priceB)
      estimatedProfit == EstimatedProfitOf(cand.priceA, cand.priceB)
  IN [id |-> id,
      tradingPairId |-> cand.pair.id,
      exchangeAId |-> find(exchanges, cand.priceA.exchange).id,
      exchangeBId |-> find(exchanges, cand.priceB.exchange).id,
      priceA |-> ToNumeric(cand.priceA.price, 1, 8),
      priceB |-> ToNumeric(cand.priceB.price, 1, 8),
      profitMargin |-> ToNumeric(profitMargin.n, profitMargin.d, 2),
      estimatedProfit |-> ToNumeric(estimatedProfit.n, estimatedProfit.d, 8),
      gasEstimate |-> ToNumeric(gasEstimate, 1, 8),
      isExecutable |-> IsExecutable(profitMargin, gasEstimate, estimatedProfit),
      createdAt |-> createdAt]

----------------------------------------------------------------------------
(* State *)

Cycles == 1..MaxCycles

\* a call that is not running
Idle == [pc |-> "idle", prices |-> <<>>, tradingPairs |-> <<>>, idx |-> 0]
\* a call waiting for fetchCryptoPrices
Fetching == [pc |-> "fetch", prices |-> <<>>, tradingPairs |-> <<>>, idx |-> 0]

\* the slot a new call takes: the lowest one that is free
FreeSlot(c) == cyc[c].pc = "idle" /\ \A d \in Cycles : d < c => cyc[d].pc # "idle"

\* a nullable column, or an optional field, holds <<>> (null, undefined) or
\* <<value>>
NoValue == <<>>
Some(v) == <<v>>

SettingsCalls == 1..MaxSettingsCalls

\* the body {} of a settings request
EmptyBody == [minProfitThreshold |-> NoValue, autoExecuteEnabled |-> NoValue]
\* a request to /api/settings that is not running
IdleCall == [pc |-> "idle", found |-> 0, body |-> EmptyBody]

\* no response sent yet
NoResponse == [route |-> "", status |-> 0, opportunityId |-> <<>>]

\* registerRoutes has run: the timer is set and the initial calculation is
\* waiting for its fetch; the tables hold the default data only
Init ==
  /\ now = 0
  /\ opps = {}
  /\ nextOppId = 1
  /\ txs = {}
  /\ nextTxId = 1
  /\ cyc = [c \in Cycles |-> IF c = 1 THEN Fetching ELSE Idle]
  /\ skipped = FALSE
  /\ pairs = tradingPairRows
  /\ nextPairId = NumPairs + 1
  /\ settings = {}
  /\ nextSettingsId = 1
  /\ calls = [k \in SettingsCalls |-> IdleCall]
  /\ res = NoResponse
  /\ interval = TRUE
  /\ closed = FALSE

----------------------------------------------------------------------------
(* DatabaseStorage *)

\* the delete without its where clause
clearAllOpportunities(rows, at) == {}

\* the delete stopping after the oldest row it finds
clearOldestOpportunity(rows, at) ==
  LET oneHourAgo == at - OneHourMs
      old == { o \in rows : o.createdAt < oneHourAgo }
  IN IF old = {} THEN rows
     ELSE rows \ {CHOOSE o \in old : \A q \in old : o.id <= q.id}

\* db.delete(arbitrageOpportunities).where(lt(createdAt, oneHourAgo))
clearOldOpportunities(rows, at) ==
  LET oneHourAgo == at - OneHourMs
  IN { o \in rows : ~(o.createdAt < oneHourAgo) }

\* order by created_at, ascending
RECURSIVE OldestFirst(_, _)
OldestFirst(S, n) ==
  IF S = {} \/ n <= 0 THEN <<>>
  ELSE LET m == CHOOSE r \in S : \A q \in S : r.createdAt <= q.createdAt
       IN <<m>> \o OldestFirst(S \ {m}, n - 1)

\* order by created_at desc limit n: the first n rows of S by descending
\* createdAt, as a sequence (rows of one createdAt in either order)
RECURSIVE NewestFirst(_, _)
NewestFirst(S, n) ==
  IF S = {} \/ n <= 0 THEN <<>>
  ELSE LET m == CHOOSE r \in S : \A q \in S : q.createdAt <= r.createdAt
       IN <<m>> \o NewestFirst(S \ {m}, n - 1)

\* the rows GET /api/opportunities answers with (the joined tradingPair,
\* exchangeA and exchangeB are left out)
getArbitrageOpportunities(limit) == NewestFirst(opps, limit)

\* what getArbitrageOpportunities joins to a row: the trading pair of the left
\* join and the first exchange row of each of the two selects by id, <<>> where
\* there is none
Details(o) ==
  LET first(S) == IF S = {} THEN NoValue ELSE Some(CHOOSE r \in S : \A q \in S : r.id <= q.id)
  IN [tradingPair |-> first({ p \in pairs : p.id = o.tradingPairId }),
      exchangeA |-> first({ e \in exchangeRows : e.id = o.exchangeAId }),
      exchangeB |-> first({ e \in exchangeRows : e.id = o.exchangeBId })]

\* the row createTransaction stores: executedAt is the column default now()
TransactionRow(t, id, executedAt) ==
  [id |-> id,
   opportunityId |-> t.opportunityId,
   status |-> t.status,
   txHash |-> t.txHash,
   actualProfit |-> t.actualProfit,
   gasUsed |-> t.gasUsed,
   executedAt |-> executedAt]

----------------------------------------------------------------------------
(* Detection cycle: one action per await of calculateArbitrageOpportunities *)

\* a callback of setInterval(calculateArbitrageOpportunities, 30000) starts a
\* call while the timer is set; nothing holds it back while an earlier call is
\* running
TimerFires(c) ==
  /\ interval
  /\ FreeSlot(c)
  /\ cyc' = [cyc EXCEPT ![c] = Fetching]
  /\ skipped' = FALSE
  /\ UNCHANGED <<timerVars, now, opps, nextOppId, txs, nextTxId, pairVars, settingsVars, res>>

\* POST /api/refresh starts a call (a closed server takes no request)
Refresh(c) ==
  /\ ~closed
  /\ FreeSlot(c)
  /\ cyc' = [cyc EXCEPT ![c] = Fetching]
  /\ skipped' = FALSE
  /\ UNCHANGED <<timerVars, now, opps, nextOppId, txs, nextTxId, pairVars, settingsVars, res>>

\* the old opportunities cleared before the fetch is known to have failed
FetchFailClearsFirst(c) ==
  /\ cyc[c].pc = "fetch"
  /\ cyc' = [cyc EXCEPT ![c] = Idle]
  /\ skipped' = TRUE
  /\ opps' = clearOldOpportunities(opps, now)
  /\ UNCHANGED <<timerVars, now, nextOppId, txs, nextTxId, pairVars, settingsVars, res>>

\* fetchCryptoPrices throws (no response, or response.ok is false): the catch
\* of calculateArbitrageOpportunities logs and the call ends
FetchFail(c) ==
  /\ cyc[c].pc = "fetch"
  /\ cyc' = [cyc EXCEPT ![c] = Idle]
  /\ skipped' = TRUE
  /\ UNCHANGED <<timerVars, now, opps, nextOppId, txs, nextTxId, pairVars, settingsVars, res>>

\* the variations one coin can get, one per exchange position
VariationsOfCoin(drawn) ==
  { v \in [1..NumExchanges -> drawn \cup {0}] :
      \A k \in 1..NumExchanges : v[k] \in VariationsAt(k, drawn) }

\* fetchCryptoPrices returns its quotes for one of the responses of Data with
\* variations out of drawn; the active trading pairs and the exchanges are read
\* (the exchanges table never changes)
FetchOkOf(c, Data, drawn) ==
  /\ cyc[c].pc = "fetch"
  /\ \E data \in Data :
     \E vari \in [DOMAIN data -> VariationsOfCoin(drawn)] :
        cyc' = [cyc EXCEPT ![c] = [pc |-> "clear", prices |-> BuildPrices(data, vari),
                                   tradingPairs |-> getAllTradingPairs, idx |-> 0]]
  /\ skipped' = FALSE
  /\ UNCHANGED <<timerVars, now, opps, nextOppId, txs, nextTxId, pairVars, settingsVars, res>>

\* the response has each coin or not, at a valid price
FetchOk(c) == FetchOkOf(c, [1..NumCoins -> {<<>>, <<BasePrice>>}], Variations)

\* await storage.clearOldOpportunities(); with no candidate the loops end at once
ClearOld(c) ==
  /\ cyc[c].pc = "clear"
  /\ opps' = clearOldOpportunities(opps, now)
  /\ cyc' = [cyc EXCEPT ![c] =
       IF Candidates(cyc[c].prices, cyc[c].tradingPairs) = <<>> THEN Idle
       ELSE [cyc[c] EXCEPT !.pc = "insert", !.idx = 1]]
  /\ skipped' = FALSE
  /\ UNCHANGED <<timerVars, now, nextOppId, txs, nextTxId, pairVars, settingsVars, res>>

\* an insert that replaces the stored row of the same trading pair and exchanges
InsertOfDeduplicates(c, gases) ==
  /\ cyc[c].pc = "insert"
  /\ nextOppId <= MaxOpps
  /\ \E cands \in {Candidates(cyc[c].prices, cyc[c].tradingPairs)} :
       LET idx == cyc[c].idx
       IN /\ \E gasEstimate \in gases :
               \E row \in {OpportunityRow(cands[idx], gasEstimate, nextOppId, now)} :
                 opps' = { o \in opps : ~(/\ o.tradingPairId = row.tradingPairId
                                          /\ o.exchangeAId = row.exchangeAId
                                          /\ o.exchangeBId = row.exchangeBId) } \cup {row}
          /\ cyc' = [cyc EXCEPT ![c] =
               IF idx = Len(cands) THEN Idle ELSE [cyc[c] EXCEPT !.idx = idx + 1]]
  /\ nextOppId' = nextOppId + 1
  /\ skipped' = FALSE
  /\ UNCHANGED <<timerVars, now, txs, nextTxId, pairVars, settingsVars, res>>

\* await storage.createArbitrageOpportunity(...) for the next candidate, with a
\* gas estimate out of gases; after the last one the loops end
InsertOf(c, gases) ==
  /\ cyc[c].pc = "insert"
  /\ nextOppId <= MaxOpps
  /\ \E cands \in {Candidates(cyc[c].prices, cyc[c].tradingPairs)} :
       LET idx == cyc[c].idx
       IN /\ \E gasEstimate \in gases :
               opps' = opps \cup {OpportunityRow(cands[idx], gasEstimate, nextOppId, now)}
          /\ cyc' = [cyc EXCEPT ![c] =
               IF idx = Len(cands) THEN Idle ELSE [cyc[c] EXCEPT !.idx = idx + 1]]
  /\ nextOppId' = nextOppId + 1
  /\ skipped' = FALSE
  /\ UNCHANGED <<timerVars, now, txs, nextTxId, pairVars, settingsVars, res>>

Insert(c) == InsertOf(c, GasEstimates)

\* the exception of a store write leaving the cycle and ending the timer with it
WriteFailStopsTimer(c) ==
  /\ cyc[c].pc \in {"clear", "insert"}
  /\ cyc' = [cyc EXCEPT ![c] = Idle]
  /\ skipped' = FALSE
  /\ interval' = FALSE
  /\ UNCHANGED <<closed, now, opps, nextOppId, txs, nextTxId, pairVars, settingsVars, res>>

\* the delete of clearOldOpportunities or an insert of
\* createArbitrageOpportunity throws: the catch of
\* calculateArbitrageOpportunities logs and the call ends, the candidates left
\* are not stored
WriteFail(c) ==
  /\ cyc[c].pc \in {"clear", "insert"}
  /\ cyc' = [cyc EXCEPT ![c] = Idle]
  /\ skipped' = FALSE
  /\ UNCHANGED <<timerVars, now, opps, nextOppId, txs, nextTxId, pairVars, settingsVars, res>>

----------------------------------------------------------------------------
(* The close event of the HTTP server *)

\* a handler of the close event that leaves the timer set
ServerCloseKeepsInterval ==
  /\ ~closed
  /\ \A k \in SettingsCalls : calls[k].pc = "idle"
  /\ closed' = TRUE
  /\ UNCHANGED <<interval, now, opps, nextOppId, txs, nextTxId, cyc, skipped, pairVars,
                 settingsVars, res>>

\* httpServer.on('close', () => clearInterval(interval)): the server has ended
\* its last connection, so no request is in flight; the calls the timer
\* started go on
ServerClose ==
  /\ ~closed
  /\ \A k \in SettingsCalls : calls[k].pc = "idle"
  /\ closed' = TRUE
  /\ interval' = FALSE
  /\ UNCHANGED <<now, opps, nextOppId, txs, nextTxId, cyc, skipped, pairVars, settingsVars, res>>

----------------------------------------------------------------------------
(* POST /api/execute/:opportunityId *)

\* parseInt of a string of decimal digits: the number, as its digits without
\* leading zeros (a JavaScript number holds it exactly)
RECURSIVE parseInt(_)
parseInt(digits) ==
  IF Len(digits) > 1 /\ Head(digits) = 0 THEN parseInt(Tail(digits)) ELSE digits

\* 2147483647, the largest value of an integer column
IntegerMax == <<2, 1, 4, 7, 4, 8, 3, 6, 4, 7>>

\* a <= b for two digit sequences of one length
RECURSIVE DigitsLE(_, _)
DigitsLE(a, b) ==
  IF a = <<>> THEN TRUE
  ELSE IF Head(a) # Head(b) THEN Head(a) < Head(b)
  ELSE DigitsLE(Tail(a), Tail(b))

\* the insert takes the number for an integer column
FitsInteger(digits) ==
  \/ Len(digits) < Len(IntegerMax)
  \/ Len(digits) = Len(IntegerMax) /\ DigitsLE(digits, IntegerMax)

\* the number a digit sequence writes
RECURSIVE ValueOf(_)
ValueOf(digits) ==
  IF digits = <<>> THEN 0
  ELSE ValueOf(SubSeq(digits, 1, Len(digits) - 1)) * 10 + digits[Len(digits)]

\* the profit written for a failed execution as well
ExecuteValuesProfitAlways(opportunityId, success, actualProfit, gasUsed) ==
  [opportunityId |-> opportunityId,
   status |-> IF success THEN "success" ELSE "failed",
   txHash |-> IF success THEN Some("0x") ELSE NoValue,
   actualProfit |-> Some(IF success THEN actualProfit ELSE 0),
   gasUsed |-> Some(gasUsed)]

\* the values handed to createTransaction
ExecuteValues(opportunityId, success, actualProfit, gasUsed) ==
  [opportunityId |-> opportunityId,
   status |-> IF success THEN "success" ELSE "failed",
   txHash |-> IF success THEN Some("0x") ELSE NoValue,
   actualProfit |-> IF success THEN Some(actualProfit) ELSE NoValue,
   gasUsed |-> Some(gasUsed)]

\* the response of the execute endpoint
ExecuteResponse(status, opportunityId) ==
  [route |-> "execute", status |-> status, opportunityId |-> opportunityId]

\* the opportunity looked up first, and 404 answered when it is not stored
ExecuteChecksStore(ids, profits, gases) ==
  /\ ~closed
  /\ nextTxId <= MaxTxs
  /\ \E param \in ids, success \in BOOLEAN, actualProfit \in profits, gasUsed \in gases :
       LET opportunityId == parseInt(param)
           stored == FitsInteger(opportunityId)
                       /\ \E o \in opps : o.id = ValueOf(opportunityId)
           t == ExecuteValues(ValueOf(opportunityId), success, actualProfit, gasUsed)
       IN IF stored
          THEN /\ txs' = txs \cup {TransactionRow(t, nextTxId, now)}
               /\ nextTxId' = nextTxId + 1
               /\ res' = ExecuteResponse(200, opportunityId)
          ELSE /\ UNCHANGED <<txs, nextTxId>>
               /\ res' = ExecuteResponse(404, opportunityId)
  /\ UNCHANGED <<timerVars, now, opps, nextOppId, cyc, skipped, pairVars, settingsVars>>

\* an earlier transaction of the opportunity overwritten instead of a new row
ExecuteUpserts(ids, profits, gases) ==
  /\ ~closed
  /\ nextTxId <= MaxTxs
  /\ \E param \in ids, success \in BOOLEAN, actualProfit \in profits, gasUsed \in gases :
       LET opportunityId == parseInt(param)
           t == ExecuteValues(ValueOf(opportunityId), success, actualProfit, gasUsed)
       IN IF FitsInteger(opportunityId)
          THEN /\ txs' = { tx \in txs : tx.opportunityId # t.opportunityId }
                           \cup {TransactionRow(t, nextTxId, now)}
               /\ nextTxId' = nextTxId + 1
               /\ res' = ExecuteResponse(200, opportunityId)
          ELSE /\ UNCHANGED <<txs, nextTxId>>
               /\ res' = ExecuteResponse(500, opportunityId)
  /\ UNCHANGED <<timerVars, now, opps, nextOppId, cyc, skipped, pairVars, settingsVars>>

\* the opportunity taken out of the store by the execution that names it
ExecuteRemovesOpportunity(ids, profits, gases) ==
  /\ ~closed
  /\ nextTxId <= MaxTxs
  /\ \E param \in ids, success \in BOOLEAN, actualProfit \in profits, gasUsed \in gases :
       LET opportunityId == parseInt(param)
           t == ExecuteValues(ValueOf(opportunityId), success, actualProfit, gasUsed)
       IN IF FitsInteger(opportunityId)
          THEN /\ txs' = txs \cup {TransactionRow(t, nextTxId, now)}
               /\ nextTxId' = nextTxId + 1
               /\ opps' = { o \in opps : o.id # t.opportunityId }
               /\ res' = ExecuteResponse(200, opportunityId)
          ELSE /\ UNCHANGED <<txs, nextTxId, opps>>
               /\ res' = ExecuteResponse(500, opportunityId)
  /\ UNCHANGED <<timerVars, now, nextOppId, cyc, skipped, pairVars, settingsVars>>

\* the handler for the ids of one request: no opportunity is looked up; the
\* insert of a number beyond the integer column fails, which the catch answers
\* with 500
ExecuteOf(ids, profits, gases) ==
  /\ ~closed
  /\ nextTxId <= MaxTxs
  /\ \E param \in ids, success \in BOOLEAN, actualProfit \in profits, gasUsed \in gases :
       LET opportunityId == parseInt(param)
           t == ExecuteValues(ValueOf(opportunityId), success, actualProfit, gasUsed)
       IN IF FitsInteger(opportunityId)
          THEN /\ txs' = txs \cup {TransactionRow(t, nextTxId, now)}
               /\ nextTxId' = nextTxId + 1
               /\ res' = ExecuteResponse(200, opportunityId)
          ELSE /\ UNCHANGED <<txs, nextTxId>>
               /\ res' = ExecuteResponse(500, opportunityId)
  /\ UNCHANGED <<timerVars, now, opps, nextOppId, cyc, skipped, pairVars, settingsVars>>

Execute == ExecuteOf(RequestedIds, ActualProfits, GasUsedValues)

----------------------------------------------------------------------------
(* Time *)

\* rows that expire by themselves as the clock moves
AdvanceHourExpires ==
  /\ (now % OneDayMs) + OneHourMs <= MaxHours * OneHourMs
  /\ now' = now + OneHourMs
  /\ opps' = clearOldOpportunities(opps, now')
  /\ UNCHANGED <<timerVars, nextOppId, txs, nextTxId, cyc, skipped, pairVars, settingsVars, res>>

AdvanceHour ==
  /\ (now % OneDayMs) + OneHourMs <= MaxHours * OneHourMs
  /\ now' = now + OneHourMs
  /\ UNCHANGED <<timerVars, opps, nextOppId, txs, nextTxId, cyc, skipped, pairVars, settingsVars, res>>

AdvanceDay ==
  /\ now + OneDayMs <= MaxDays * OneDayMs + MaxHours * OneHourMs
  /\ now' = now + OneDayMs
  /\ UNCHANGED <<timerVars, opps, nextOppId, txs, nextTxId, cyc, skipped, pairVars, settingsVars, res>>

----------------------------------------------------------------------------
(* DatabaseStorage.createTradingPair *)

\* a row is added to trading_pairs, active or not
createTradingPair ==
  /\ nextPairId <= NumPairs + MaxNewPairs
  /\ \E i \in DOMAIN PairSymbols, isActive \in BOOLEAN :
       pairs' = pairs \cup {[id |-> nextPairId, baseSymbol |-> PairSymbols[i],
                             isActive |-> isActive]}
  /\ nextPairId' = nextPairId + 1
  /\ UNCHANGED <<timerVars, now, opps, nextOppId, txs, nextTxId, cyc, skipped, settingsVars, res>>

----------------------------------------------------------------------------
(* GET and POST /api/settings: one action per await of getBotSettings and of *)
(* updateBotSettings                                                         *)

\* a decimal field of a request body: a JSON string or a JSON number, of a whole
\* number
Text(v) == [type |-> "string", value |-> v]
Number(v) == [type |-> "number", value |-> v]

\* the bodies sent: {minProfitThreshold: "2"}, {minProfitThreshold: "-1",
\* autoExecuteEnabled: false}, {minProfitThreshold: 2} and
\* {minProfitThreshold: "1000", autoExecuteEnabled: false}
SettingsBodies ==
  { [minProfitThreshold |-> Some(Text(2)), autoExecuteEnabled |-> NoValue],
    [minProfitThreshold |-> Some(Text(0 - 1)), autoExecuteEnabled |-> Some(FALSE)],
    [minProfitThreshold |-> Some(Number(2)), autoExecuteEnabled |-> NoValue],
    [minProfitThreshold |-> Some(Text(1000)), autoExecuteEnabled |-> Some(FALSE)] }

\* insertBotSettingsSchema.parse(body) does not throw: the schema of a decimal
\* column is a string, every field is optional
Parses(body) ==
  \/ body.minProfitThreshold = NoValue
  \/ body.minProfitThreshold[1].type = "string"

\* min_profit_threshold is numeric(5, 2): the insert or update fails for a value
\* of 10^3 or more on either side of zero
FitsThreshold(body) ==
  \/ body.minProfitThreshold = NoValue
  \/ Abs(body.minProfitThreshold[1].value) < Pow10(5 - 2)

\* the row of the defaults (the columns no request of the model sets are left
\* out); minProfitThreshold "1.5" is stored as 1.50
DefaultSettings(id, at) ==
  [id |-> id,
   minProfitThreshold |-> ToNumeric(15, 10, 2),
   autoExecuteEnabled |-> TRUE,
   updatedAt |-> at]

\* {...row, ...newSettings, updatedAt}
WithSettings(row, body, at) ==
  [id |-> row.id,
   minProfitThreshold |->
     IF body.minProfitThreshold = NoValue THEN row.minProfitThreshold
     ELSE [w |-> body.minProfitThreshold[1].value, f |-> 0],
   autoExecuteEnabled |->
     IF body.autoExecuteEnabled = NoValue THEN row.autoExecuteEnabled
     ELSE body.autoExecuteEnabled[1],
   updatedAt |-> at]

SettingsResponse(status) == [route |-> "settings", status |-> status, opportunityId |-> <<>>]

\* GET /api/settings: the select of getBotSettings; with a row the request is
\* answered, with none the insert of the defaults is next
GetSettings(k) ==
  /\ ~closed
  /\ calls[k].pc = "idle"
  /\ calls' = [calls EXCEPT ![k] = IF settings = {} THEN [IdleCall EXCEPT !.pc = "getInsert"]
                                   ELSE IdleCall]
  /\ UNCHANGED <<timerVars, now, opps, nextOppId, txs, nextTxId, cyc, skipped, pairVars,
                 settings, nextSettingsId, res>>

\* the insert of getBotSettings
GetSettingsInsert(k) ==
  /\ calls[k].pc = "getInsert"
  /\ settings' = settings \cup {DefaultSettings(nextSettingsId, now)}
  /\ nextSettingsId' = nextSettingsId + 1
  /\ calls' = [calls EXCEPT ![k] = IdleCall]
  /\ UNCHANGED <<timerVars, now, opps, nextOppId, txs, nextTxId, cyc, skipped, pairVars, res>>

\* POST /api/settings with one of bodies: the body is parsed (a ZodError is
\* answered with 400), then the select of updateBotSettings: limit 1 with no
\* order takes any row
PostSettingsOf(k, bodies) ==
  /\ ~closed
  /\ calls[k].pc = "idle"
  /\ \E body \in bodies :
       IF ~Parses(body)
       THEN /\ res' = SettingsResponse(400)
            /\ UNCHANGED calls
       ELSE /\ UNCHANGED res
            /\ IF settings = {}
               THEN calls' = [calls EXCEPT ![k] = [pc |-> "postInsert", found |-> 0,
                                                   body |-> body]]
               ELSE \E row \in settings :
                      calls' = [calls EXCEPT ![k] = [pc |-> "postUpdate", found |-> row.id,
                                                     body |-> body]]
  /\ UNCHANGED <<timerVars, now, opps, nextOppId, txs, nextTxId, cyc, skipped, pairVars,
                 settings, nextSettingsId>>

PostSettings(k) == PostSettingsOf(k, SettingsBodies)

\* the update of updateBotSettings where(eq(id, settings.id)); a value the column
\* does not take fails the statement, which is answered with 500
PostSettingsUpdate(k) ==
  /\ calls[k].pc = "postUpdate"
  /\ IF FitsThreshold(calls[k].body)
     THEN /\ settings' = { IF row.id = calls[k].found
                           THEN WithSettings(row, calls[k].body, now) ELSE row :
                           row \in settings }
          /\ res' = SettingsResponse(200)
     ELSE /\ UNCHANGED settings
          /\ res' = SettingsResponse(500)
  /\ calls' = [calls EXCEPT ![k] = IdleCall]
  /\ UNCHANGED <<timerVars, now, opps, nextOppId, txs, nextTxId, cyc, skipped, pairVars,
                 nextSettingsId>>

\* the insert of updateBotSettings: the defaults with the new settings over them
PostSettingsInsert(k) ==
  /\ calls[k].pc = "postInsert"
  /\ IF FitsThreshold(calls[k].body)
     THEN /\ settings' = settings \cup
                 {WithSettings(DefaultSettings(nextSettingsId, now), calls[k].body, now)}
          /\ nextSettingsId' = nextSettingsId + 1
          /\ res' = SettingsResponse(200)
     ELSE /\ UNCHANGED <<settings, nextSettingsId>>
          /\ res' = SettingsResponse(500)
  /\ calls' = [calls EXCEPT ![k] = IdleCall]
  /\ UNCHANGED <<timerVars, now, opps, nextOppId, txs, nextTxId, cyc, skipped, pairVars>>

----------------------------------------------------------------------------

Next ==
  \/ \E c \in Cycles : TimerFires(c)
  \/ \E c \in Cycles : Refresh(c)
  \/ \E c \in Cycles : FetchFail(c)
  \/ \E c \in Cycles : FetchOk(c)
  \/ \E c \in Cycles : ClearOld(c)
  \/ \E c \in Cycles : Insert(c)
  \/ \E c \in Cycles : WriteFail(c)
  \/ ServerClose
  \/ Execute
  \/ createTradingPair
  \/ \E k \in SettingsCalls : GetSettings(k)
  \/ \E k \in SettingsCalls : GetSettingsInsert(k)
  \/ \E k \in SettingsCalls : PostSettings(k)
  \/ \E k \in SettingsCalls : PostSettingsUpdate(k)
  \/ \E k \in SettingsCalls : PostSettingsInsert(k)
  \/ AdvanceHour
  \/ AdvanceDay

Spec == Init /\ [][Next]_vars

\* the detection cycles alone: no execution is requested, the clock runs for
\* hours (transactions are not read or written by a cycle)
NextDetect ==
  \/ \E c \in Cycles : TimerFires(c)
  \/ \E c \in Cycles : Refresh(c)
  \/ \E c \in Cycles : FetchFail(c)
  \/ \E c \in Cycles : FetchOk(c)
  \/ \E c \in Cycles : ClearOld(c)
  \/ \E c \in Cycles : Insert(c)
  \/ AdvanceHour

SpecDetect == Init /\ [][NextDetect]_vars

\* the executions alone: the initial calculation never gets its answer, the
\* clock runs for hours and days (opportunities are not read or written by an
\* execution)
NextStats ==
  \/ Execute
  \/ AdvanceHour
  \/ AdvanceDay

SpecStats == Init /\ [][NextStats]_vars

\* the ids, profit and gas of the executions that run next to detection cycles:
\* "1" and "2147483648"
MixedIds == {<<1>>, <<2, 1, 4, 7, 4, 8, 3, 6, 4, 8>>}
MixedProfits == {20}
MixedGasUsed == {3}
\* the variation and the gas estimate drawn in those cycles: 1.6 % and 2 dollars
MixedVariations == {1600}
MixedGasEstimates == {2}

\* the settings body sent next to them: {minProfitThreshold: "2"}
MixedBodies == {[minProfitThreshold |-> Some(Text(2)), autoExecuteEnabled |-> NoValue]}

ExecuteMixed == ExecuteOf(MixedIds, MixedProfits, MixedGasUsed)

PostSettingsMixed(k) == PostSettingsOf(k, MixedBodies)

InsertMixed(c) == InsertOf(c, MixedGasEstimates)

\* the response has every coin, at the base price
FetchOkMixed(c) == FetchOkOf(c, {[i \in 1..NumCoins |-> <<BasePrice>>]}, MixedVariations)

\* executions next to the detection cycles and the settings requests: one cycle
\* and one settings request at a time, the clock runs for hours
NextMixed ==
  \/ TimerFires(1)
  \/ FetchOkMixed(1)
  \/ ClearOld(1)
  \/ InsertMixed(1)
  \/ ExecuteMixed
  \/ PostSettingsMixed(1)
  \/ PostSettingsUpdate(1)
  \/ PostSettingsInsert(1)
  \/ AdvanceHour

SpecMixed == Init /\ [][NextMixed]_vars

\* the same next to a quote source that fails or not
NextFrame ==
  \/ TimerFires(1)
  \/ FetchFail(1)
  \/ FetchOkMixed(1)
  \/ ClearOld(1)
  \/ InsertMixed(1)
  \/ ExecuteMixed
  \/ PostSettingsMixed(1)
  \/ PostSettingsUpdate(1)
  \/ PostSettingsInsert(1)
  \/ AdvanceHour

SpecFrame == Init /\ [][NextFrame]_vars

\* the variations drawn for those quotes: 0.501 % and 1.6 %
QuoteVariations == {501, 1600}

\* the default trading pairs of the coins whose quotes can be invalid
quotePairRows ==
  { [id |-> i, baseSymbol |-> PairSymbols[i], isActive |-> TRUE] : i \in 1..NumQuoteCoins }

InitQuotes ==
  /\ now = 0
  /\ opps = {}
  /\ nextOppId = 1
  /\ txs = {}
  /\ nextTxId = 1
  /\ cyc = [c \in Cycles |-> IF c = 1 THEN Fetching ELSE Idle]
  /\ skipped = FALSE
  /\ pairs = quotePairRows
  /\ nextPairId = NumQuoteCoins + 1
  /\ settings = {}
  /\ nextSettingsId = 1
  /\ calls = [k \in SettingsCalls |-> IdleCall]
  /\ res = NoResponse
  /\ interval = TRUE
  /\ closed = FALSE

\* the response has each coin or not, at a valid price, at zero or at a negative
\* price
FetchAnyQuotes(c) ==
  FetchOkOf(c, [1..NumQuoteCoins -> {<<>>} \cup { <<usd>> : usd \in UsdValues }],
            QuoteVariations)

\* the initial calculation alone, over two trading pairs and any quotes
NextQuotes ==
  \/ FetchAnyQuotes(1)
  \/ ClearOld(1)
  \/ Insert(1)

SpecQuotes == InitQuotes /\ [][NextQuotes]_vars

\* the timer and the failures of a cycle: calls started by the timer and by
\* refresh requests, fetches and store writes that fail or not, the close of the
\* server, the clock runs for hours
NextTimer ==
  \/ \E c \in Cycles : TimerFires(c)
  \/ \E c \in Cycles : Refresh(c)
  \/ \E c \in Cycles : FetchFail(c)
  \/ \E c \in Cycles : FetchOkMixed(c)
  \/ \E c \in Cycles : ClearOld(c)
  \/ \E c \in Cycles : InsertMixed(c)
  \/ \E c \in Cycles : WriteFail(c)
  \/ ServerClose
  \/ AdvanceHour

SpecTimer == Init /\ [][NextTimer]_vars

\* the trading pairs alone: rows are added to the default ones
NextPairs == createTradingPair

SpecPairs == Init /\ [][NextPairs]_vars

\* the settings alone: requests to /api/settings at any time, the clock runs for
\* hours
NextSettings ==
  \/ \E k \in SettingsCalls : GetSettings(k)
  \/ \E k \in SettingsCalls : GetSettingsInsert(k)
  \/ \E k \in SettingsCalls : PostSettings(k)
  \/ \E k \in SettingsCalls : PostSettingsUpdate(k)
  \/ \E k \in SettingsCalls : PostSettingsInsert(k)
  \/ AdvanceHour

SpecSettings == Init /\ [][NextSettings]_vars

----------------------------------------------------------------------------
(* DatabaseStorage.getStatsOverview *)

\* reduce((sum, tx) => sum + parseFloat(tx[field]), 0)
RECURSIVE SumOver(_, _)
SumOver(S, field) ==
  IF S = {} THEN 0
  ELSE LET r == CHOOSE q \in S : TRUE IN r[field][1] + SumOver(S \ {r}, field)

\* where(and(eq(status, 'success'), lt(executedAt, new Date())))
recentTransactions(rows, at) ==
  { tx \in rows : tx.status = "success" /\ tx.executedAt < at }

\* the 24 h filter left out
totalProfit24hAllTime(rows, at) ==
  SumOver({ tx \in recentTransactions(rows, at) : tx.actualProfit # NoValue }, "actualProfit")

\* filter(tx => new Date(tx.executedAt) > oneDayAgo && tx.status === 'success')
\* .filter(tx => tx.actualProfit).reduce(sum + parseFloat(tx.actualProfit))
totalProfit24h(rows, at) ==
  LET oneDayAgo == at - OneDayMs
      recentSuccessfulTransactions ==
        { tx \in recentTransactions(rows, at) : tx.executedAt > oneDayAgo /\ tx.status = "success" }
  IN SumOver({ tx \in recentSuccessfulTransactions : tx.actualProfit # NoValue },
             "actualProfit")

\* recentTransactions.filter(tx => tx.gasUsed && executedAt > oneDayAgo).reduce(...)
gasSpent24h(rows, at) ==
  LET oneDayAgo == at - OneDayMs
  IN SumOver({ tx \in recentTransactions(rows, at) : tx.gasUsed # NoValue /\ tx.executedAt > oneDayAgo },
             "gasUsed")

\* (successfulTxs / recent24hTxs.length) * 100, or 0: as a rational
successRate(rows, at) ==
  LET oneDayAgo == at - OneDayMs
      recent24hTxs == { tx \in recentTransactions(rows, at) : tx.executedAt > oneDayAgo }
      successfulTxs == Cardinality({ tx \in recent24hTxs : tx.status = "success" })
  IN IF Cardinality(recent24hTxs) > 0
     THEN [n |-> successfulTxs * 100, d |-> Cardinality(recent24hTxs)]
     ELSE [n |-> 0, d |-> 1]

getStatsOverview ==
  [totalProfit24h |-> totalProfit24h(txs, now),
   activeOpportunities |-> Cardinality(opps),
   successRate |-> successRate(txs, now),
   gasSpent24h |-> gasSpent24h(txs, now),
   scannedPairs |-> Cardinality(pairs)]

----------------------------------------------------------------------------
(* Properties *)

Range(f) == { f[i] : i \in DOMAIN f }
DefaultLimit == 50
\* what GET /api/opportunities returns with no limit parameter
Listing == Range(getArbitrageOpportunities(DefaultLimit))

Num(w, f) == [w |-> w, f |-> f]
NumLE(a, b) == ~NumLT(b, a)

\* an opportunity older than the retention window
Expired(o) == o.createdAt < now - OneHourMs
\* a transaction executed within the last 24 hours
InWindow(tx) == tx.executedAt > now - OneDayMs /\ tx.executedAt < now

RatEq(x, y) == x.n * y.d = y.n * x.d

\* C1 as stated: every stored opportunity has a profitMargin strictly above the
\* filter 0.5 and two different exchanges.
C1_StrictlyAboveFilter ==
  \A o \in opps : NumLT(Num(0, 50), o.profitMargin) /\ o.exchangeAId # o.exchangeBId

\* C1 amended: every stored opportunity has a profitMargin, which is the margin
\* rounded to two decimals, of at least 0.50, and two different exchanges.
C1_AtLeastFilter ==
  \A o \in opps : NumLE(Num(0, 50), o.profitMargin) /\ o.exchangeAId # o.exchangeBId

\* a margin of 0.501 % has been stored, as 0.50
C1_Witness == \E o \in opps : o.profitMargin = Num(0, 50)

\* C2 as stated: isExecutable is true exactly when profitMargin > 1.5 and
\* gasEstimate < estimatedProfit.
C2_ExecutableRule ==
  \A o \in opps :
    o.isExecutable <=>
      (NumLT(Num(1, 50), o.profitMargin) /\ NumLT(o.gasEstimate, o.estimatedProfit))

\* C2 amended: an executable opportunity has a stored profitMargin of at least
\* 1.50 and gasEstimate < estimatedProfit; a stored profitMargin above 1.50 with
\* gasEstimate < estimatedProfit makes the opportunity executable.
C2_ExecutableRounded ==
  \A o \in opps :
    /\ o.isExecutable =>
         (NumLE(Num(1, 50), o.profitMargin) /\ NumLT(o.gasEstimate, o.estimatedProfit))
    /\ (NumLT(Num(1, 50), o.profitMargin) /\ NumLT(o.gasEstimate, o.estimatedProfit)) =>
         o.isExecutable

\* an executable opportunity stored with profitMargin 1.50 next to one that is
\* not executable
C2_Witness ==
  /\ \E o \in opps : o.isExecutable /\ o.profitMargin = Num(1, 50)
  /\ \E o \in opps : ~o.isExecutable

\* C3 retention: an opportunity stays in the listing while it is younger than
\* 60 minutes, and is not in the listing once it is older than 60 minutes.
C3_Retention ==
  [][ /\ \A o \in opps : now' < o.createdAt + OneHourMs => o \in Listing'
      /\ \A o \in opps' : now' > o.createdAt + OneHourMs => o \notin Listing' ]_vars

\* C4: the steps of a cycle whose fetch fails (its start and the catch) leave the
\* stored opportunities as they are.
C4_SkippedCycleKeepsStore ==
  [][ \A c \in Cycles :
        (cyc[c].pc \in {"idle", "fetch"} /\ cyc'[c].pc \in {"idle", "fetch"} /\ cyc'[c] # cyc[c])
          => (opps' = opps /\ nextOppId' = nextOppId) ]_vars

\* a cycle has just been skipped while the store held an expired opportunity
C4_Witness == skipped /\ \E o \in opps : Expired(o)

\* a cycle between its first store write (the delete) and its last insert
Writing(c) == cyc[c].pc = "insert"

\* C5: at most one cycle is between its first and last store write, and no cycle
\* starts while one is.
C5_MutualExclusion ==
  [][ /\ Cardinality({ c \in Cycles : Writing(c) }') <= 1
      /\ (\E c \in Cycles : cyc[c].pc = "idle" /\ cyc'[c].pc = "fetch")
           => ~(\E d \in Cycles : Writing(d)) ]_vars

\* C6: the store a read finds never holds some but not all of the opportunities
\* of a cycle (GET /api/opportunities and GET /api/stats read the store as it is
\* at any state).
C6_NoPartialGeneration ==
  \A c \in Cycles : cyc[c].pc = "insert" => cyc[c].idx = 1

\* C7: successRate is successes / all transactions of the last 24 h * 100, and 0
\* with no transaction in the window.
C7_SuccessRate ==
  LET window == { tx \in txs : InWindow(tx) }
      wins == { tx \in window : tx.status = "success" }
      claimed == IF window = {} THEN [n |-> 0, d |-> 1]
                 ELSE [n |-> Cardinality(wins) * 100, d |-> Cardinality(window)]
  IN RatEq(getStatsOverview.successRate, claimed)

\* C8: gasSpent24h is the sum of gasUsed over all transactions of the last 24 h,
\* failed ones included.
C8_GasSpent ==
  getStatsOverview.gasSpent24h = SumOver({ tx \in txs : InWindow(tx) }, "gasUsed")

\* C9: totalProfit24h is the sum of actualProfit over exactly the successful
\* transactions of the last 24 h.
C9_TotalProfit ==
  getStatsOverview.totalProfit24h =
    SumOver({ tx \in txs : InWindow(tx) /\ tx.status = "success" }, "actualProfit")

\* a success within the window next to a success older than 24 h
C9_Witness ==
  /\ \E tx \in txs : InWindow(tx) /\ tx.status = "success"
  /\ \E tx \in txs : tx.status = "success" /\ tx.executedAt <= now - OneDayMs

\* C10: activeOpportunities is the number of stored opportunities that are not
\* expired.
C10_ActiveCount ==
  getStatsOverview.activeOpportunities = Cardinality({ o \in opps : ~Expired(o) })

\* C11: scannedPairs is the number of trading pairs whose isActive is true; a
\* pair created with isActive = false is not counted.
C11_ScannedPairsActive ==
  getStatsOverview.scannedPairs = Cardinality({ p \in pairs : p.isActive })

\* the values of the limit parameter that are sent
Limits == {0, 1, 2, DefaultLimit}

\* C12: for every limit the listing has at most limit opportunities of the
\* store, each once, in non-increasing createdAt order, and no stored
\* opportunity it leaves out is newer than one it returns; it leaves none out
\* while it is shorter than limit.
C12_ListingNewestFirst ==
  \A limit \in Limits :
    LET l == getArbitrageOpportunities(limit)
    IN /\ Len(l) <= limit
       /\ Range(l) \subseteq opps
       /\ Cardinality(Range(l)) = Len(l)
       /\ Len(l) < limit => Range(l) = opps
       /\ \A i, j \in DOMAIN l : i < j => l[i].createdAt >= l[j].createdAt
       /\ \A o \in opps \ Range(l) : \A r \in Range(l) : o.createdAt <= r.createdAt

\* two opportunities of different age are stored, so that a limit of 1 leaves
\* the older one out
C12_Witness ==
  /\ \E o, q \in opps : o.createdAt < q.createdAt
  /\ Len(getArbitrageOpportunities(1)) = 1

\* C13: clearOldOpportunities run a second time, with the clock where it was and
\* no write in between, leaves the store as the first run left it.
C13_ExpireIdempotent ==
  LET once == clearOldOpportunities(opps, now)
  IN clearOldOpportunities(once, now) = once

\* the first run has rows to delete and a row to keep
C13_Witness ==
  /\ \E o \in opps : Expired(o)
  /\ \E o \in opps : ~Expired(o)

\* C14: the delete of a cycle removes exactly the opportunities created more
\* than 60 minutes before it, and no later step of the cycle removes or changes
\* a stored opportunity.
C14_CycleRemovesExactlyOld ==
  [][ \A c \in Cycles :
        /\ (cyc[c].pc = "clear" /\ cyc'[c].pc # "clear")
             => opps' = { o \in opps : ~Expired(o) }
        /\ (cyc[c].pc = "insert" /\ cyc'[c] # cyc[c]) => opps \subseteq opps' ]_vars

\* a cycle has just deleted an opportunity of an earlier hour and kept a younger
\* one
C14_Witness ==
  /\ \E c \in Cycles : cyc[c].pc = "insert" /\ cyc[c].idx = 1
  /\ \E o \in opps : ~Expired(o) /\ o.createdAt < now
  /\ Cardinality(opps) < nextOppId - 1

\* a step of the execute endpoint: it has answered, or stored a transaction
ExecuteStep == res'.route = "execute" /\ (res' # res \/ nextTxId' # nextTxId)

\* the step has stored exactly one transaction, with a new id, for the
\* opportunity id of the request
RecordsOne ==
  /\ txs \subseteq txs'
  /\ Cardinality(txs' \ txs) = 1
  /\ \A tx \in txs' \ txs :
       /\ tx.id \notin { t.id : t \in txs }
       /\ FitsInteger(res'.opportunityId)
       /\ tx.opportunityId = ValueOf(res'.opportunityId)

\* C15 as stated: every call of execute, whatever integer id it names and
\* whether or not an opportunity of that id is stored, records exactly one new
\* transaction referencing the id and never answers NotFound.
C15_AlwaysRecords ==
  [][ ExecuteStep => (res'.status # 404 /\ RecordsOne) ]_vars

\* C15 amended: a call of execute never answers NotFound; for an id up to
\* 2147483647, stored or not, it records exactly one new transaction
\* referencing the id and answers 200; for a larger id it records nothing and
\* answers 500.
C15_RecordsWithinRange ==
  [][ ExecuteStep =>
        /\ res'.status # 404
        /\ IF FitsInteger(res'.opportunityId)
           THEN res'.status = 200 /\ RecordsOne
           ELSE res'.status = 500 /\ txs' = txs /\ nextTxId' = nextTxId ]_vars

\* an execution of opportunity 1 has been recorded and answered while no
\* opportunity 1 is stored, after opportunities have been stored
C15_Witness ==
  /\ res.route = "execute" /\ res.status = 200
  /\ nextOppId > 1
  /\ \E tx \in txs : tx.opportunityId = 1 /\ tx.executedAt = now
  /\ \A o \in opps : o.id # 1

\* C16: every transaction is a success or a failure; a failure has no
\* actualProfit and no txHash but a gasUsed; a success has all three.
C16_TransactionShape ==
  \A tx \in txs :
    /\ tx.status \in {"success", "failed"}
    /\ tx.gasUsed # NoValue
    /\ tx.status = "failed" => (tx.actualProfit = NoValue /\ tx.txHash = NoValue)
    /\ tx.status = "success" => (tx.actualProfit # NoValue /\ tx.txHash # NoValue)

\* a failure and a success have been recorded
C16_Witness ==
  /\ \E tx \in txs : tx.status = "failed"
  /\ \E tx \in txs : tx.status = "success"

\* C17: no step changes or removes a recorded transaction, and a transaction
\* that is added has an id no earlier transaction has.
C17_AppendOnly ==
  [][ /\ txs \subseteq txs'
      /\ \A tx \in txs' \ txs : tx.id \notin { t.id : t \in txs } ]_vars

\* opportunity 1 has been executed twice, and has since left the store
C17_Witness ==
  /\ \E t, u \in txs : t.id # u.id /\ t.opportunityId = 1 /\ u.opportunityId = 1
  /\ nextOppId > 1
  /\ \A o \in opps : o.id # 1
  /\ settings # {}

\* C18: there is never more than one bot_settings row, and there is one once a
\* first access has stored it.
C18_SingleSettings ==
  /\ Cardinality(settings) <= 1
  /\ nextSettingsId > 1 => settings # {}

\* a body with a value out of range: a negative minProfitThreshold, or one the
\* column cannot hold
OutOfRange(body) ==
  /\ body.minProfitThreshold # NoValue
  /\ (body.minProfitThreshold[1].value < 0 \/ ~FitsThreshold(body))

\* C19: a settings update whose body has a value out of range is answered with
\* an error and leaves every stored settings row as it was.
C19_InvalidRejected ==
  [][ \A k \in SettingsCalls :
        (calls[k].pc \in {"postUpdate", "postInsert"} /\ calls'[k].pc = "idle"
           /\ OutOfRange(calls[k].body))
          => (settings' = settings /\ res'.status \in {400, 500}) ]_vars

\* a quote with a price above zero
ValidQuote(p) == p.price > 0

\* the candidates of a cycle that its valid quotes alone give
ValidCandidates(c) ==
  LET one(valid) == Candidates(valid, cyc[c].tradingPairs)
  IN CHOOSE cands \in { one(valid) : valid \in {SelectSeq(cyc[c].prices, ValidQuote)} } : TRUE

\* C20: no stored opportunity has a price of zero or below; the candidates of a
\* batch are those of its valid quotes alone; each insert of the cycle stores
\* the next of them, and the cycle ends only after the last one.
C20_InvalidQuoteIsolated ==
  [][ /\ \A o \in opps' : NumLT(Num(0, 0), o.priceA) /\ NumLT(Num(0, 0), o.priceB)
      /\ \A c \in Cycles : \A cands \in {ValidCandidates(c)} :
           /\ Candidates(cyc[c].prices, cyc[c].tradingPairs) = cands
           /\ (cyc[c].pc = "clear" /\ cyc'[c].pc = "idle") => cands = <<>>
           /\ (cyc[c].pc = "insert" /\ cyc'[c] # cyc[c]) =>
                LET idx == cyc[c].idx
                IN /\ idx <= Len(cands)
                   /\ cyc'[c].pc = "idle" <=> idx = Len(cands)
                   /\ \E o \in opps' \ opps :
                        /\ o.tradingPairId = cands[idx].pair.id
                        /\ o.priceA = ToNumeric(cands[idx].priceA.price, 1, 8)
                        /\ o.priceB = ToNumeric(cands[idx].priceB.price, 1, 8) ]_vars

\* a batch with an invalid quote and valid ones, of which the cycle has stored
\* the first candidate and goes on to the second
C20_Witness ==
  \E c \in Cycles :
    /\ cyc[c].pc = "insert" /\ cyc[c].idx = 2
    /\ \E i \in DOMAIN cyc[c].prices : ~ValidQuote(cyc[c].prices[i])
    /\ \E i \in DOMAIN cyc[c].prices : ValidQuote(cyc[c].prices[i])
    /\ opps # {}

\* the quotes a cycle should turn into opportunities: a trading pair of the
\* cycle and two positions i < j of its quotes, both of the pair's base symbol,
\* of distinct exchanges, with a margin above the filter
ExpectedPairs(prices, tradingPairs) ==
  { e \in (DOMAIN tradingPairs) \X (DOMAIN prices) \X (DOMAIN prices) :
      /\ e[2] < e[3]
      /\ prices[e[2]].symbol = tradingPairs[e[1]].baseSymbol
      /\ prices[e[3]].symbol = tradingPairs[e[1]].baseSymbol
      /\ prices[e[2]].exchange # prices[e[3]].exchange
      /\ PassesFilter(ProfitMarginOf(prices[e[2]], prices[e[3]])) }

\* the candidate a cycle makes of e
CandidateOf(e, prices, tradingPairs) ==
  [pair |-> tradingPairs[e[1]], priceA |-> prices[e[2]], priceB |-> prices[e[3]]]

\* the row of opps' that was not in opps holds the candidate cand under a new id
CreatesFor(cand) ==
  \E o \in opps' \ opps :
    /\ opps' = opps \cup {o}
    /\ \A q \in opps : q.id # o.id
    /\ o.tradingPairId = cand.pair.id
    /\ o.priceA = ToNumeric(cand.priceA.price, 1, 8)
    /\ o.priceB = ToNumeric(cand.priceB.price, 1, 8)
    /\ o.exchangeAId = find(getAllExchanges, cand.priceA.exchange).id
    /\ o.exchangeBId = find(getAllExchanges, cand.priceB.exchange).id

\* C21: a cycle that has its quotes goes through one candidate per trading pair
\* and unordered pair of quotes of the pair's base symbol, of distinct exchanges
\* and with a margin above the filter (no other candidate, none twice); each of
\* its inserts creates one opportunity, under a new id, for the candidate whose
\* turn it is, and the cycle ends after the last candidate
C21_OnePerUnorderedPair ==
  [][\A c \in Cycles :
       cyc[c].pc \in {"clear", "insert"} =>
         \A cands \in {Candidates(cyc[c].prices, cyc[c].tradingPairs)} :
         \A expected \in {ExpectedPairs(cyc[c].prices, cyc[c].tradingPairs)} :
           /\ Len(cands) = Cardinality(expected)
           /\ \A e \in expected :
                Cardinality({ k \in DOMAIN cands :
                    cands[k] = CandidateOf(e, cyc[c].prices, cyc[c].tradingPairs) }) = 1
           /\ (cyc[c].pc = "clear" /\ cyc'[c] # cyc[c]) =>
                IF cands = <<>> THEN cyc'[c].pc = "idle"
                ELSE cyc'[c].pc = "insert" /\ cyc'[c].idx = 1
           /\ (cyc[c].pc = "insert" /\ cyc'[c] # cyc[c]) =>
                /\ CreatesFor(cands[cyc[c].idx])
                /\ IF cyc[c].idx = Len(cands) THEN cyc'[c].pc = "idle"
                   ELSE cyc'[c].pc = "insert" /\ cyc'[c].idx = cyc[c].idx + 1]_vars

\* a finished cycle over quotes 100000, 101600 (twice): the two unordered pairs
\* of unequal quotes are stored once each, with margin 1.60
C21_Witness ==
  /\ cyc[1].pc = "idle"
  /\ Cardinality(opps) = 2
  /\ \A o \in opps : o.profitMargin = Num(1, 60) /\ o.exchangeBId = NumExchanges
  /\ \E o, q \in opps : o.exchangeAId = 1 /\ q.exchangeAId = 2

\* the stored priceA and priceB of o, in whole dollars
StoredPrices(o) == <<o.priceA.w, o.priceB.w>>

\* profitMargin and estimatedProfit of o are exactly the margin and the profit of
\* its stored prices
ExactFormulas(o) ==
  LET a == o.priceA.w
      b == o.priceB.w
  IN /\ o.priceA.f = 0 /\ o.priceB.f = 0
     /\ (o.profitMargin.w * 100 + o.profitMargin.f) * Min(a, b) = Abs(a - b) * 100 * 100
     /\ o.estimatedProfit.w * Pow10(8) + o.estimatedProfit.f
          = (o.profitMargin.w * 100 + o.profitMargin.f) * (tradeAmount \div 100) * Pow10(6)

\* profitMargin and estimatedProfit of o are the margin and the profit of its
\* stored prices in the scale of their columns: two and eight decimals
RoundedFormulas(o) ==
  LET a == o.priceA.w
      b == o.priceB.w
  IN /\ o.priceA.f = 0 /\ o.priceB.f = 0
     /\ Min(a, b) > 0
     /\ o.profitMargin = ToNumeric(Abs(a - b) * 100, Min(a, b), 2)
     /\ o.estimatedProfit = ToNumeric(Abs(a - b) * tradeAmount, Min(a, b), 8)

\* a row that is stored before and after a step is the same row
RowsUnchanged == \A o \in opps : \A q \in opps' : q.id = o.id => q = o

\* C22 as stated: every stored opportunity has profitMargin = |priceA - priceB| /
\* min(priceA, priceB) * 100 and estimatedProfit = (profitMargin / 100) * 1000
\* over its stored prices, and no step changes a stored opportunity.
C22_ExactFormulas ==
  [][(\A o \in opps' : ExactFormulas(o)) /\ RowsUnchanged]_vars

\* C22 amended: every stored opportunity has for profitMargin the margin of the
\* prices it was created from (whole dollars here, stored as they are) rounded
\* to two decimals and for estimatedProfit |priceA - priceB| / min(priceA,
\* priceB) * 1000 rounded to eight decimals (not the rounded margin times 10),
\* and no step changes a stored opportunity.
C22_RoundedFormulas ==
  [][(\A o \in opps' : RoundedFormulas(o)) /\ RowsUnchanged]_vars

\* prices 100501 and 100000 are stored with profitMargin 0.50 and estimatedProfit
\* 5.01, next to a second opportunity
C22_Witness ==
  \E o \in opps :
    /\ StoredPrices(o) = <<BasePrice + 501, BasePrice>>
    /\ o.profitMargin = Num(0, 50)
    /\ o.estimatedProfit = Num(5, Pow10(6))
    /\ \E q \in opps : q.id > o.id

\* what a detection cycle reads and writes
cycleVars == <<now, opps, nextOppId, cyc, skipped, pairVars, timerVars>>

\* the recorded transactions are those of the ids handed out so far, one each
NoneLost ==
  /\ Cardinality(txs') = nextTxId' - 1
  /\ { tx.id : tx \in txs' } = 1..(nextTxId' - 1)
  /\ txs \subseteq txs'

\* C23 as stated: in any interleaving with each other and with the steps of the
\* detection cycles, every execute request records exactly one new transaction
\* with a new id and the opportunityId of the request, no transaction is lost or
\* overwritten, and an execution changes nothing a cycle reads or writes while
\* no other step touches the transactions.
C23_EveryRequestRecords ==
  [][ /\ ExecuteStep => (RecordsOne /\ UNCHANGED cycleVars)
      /\ ~ExecuteStep => UNCHANGED <<txs, nextTxId>>
      /\ NoneLost ]_vars

\* C23 amended: the same for the requests of an id up to 2147483647; a request
\* of a larger id records nothing, in any interleaving.
C23_RequestsInRangeRecord ==
  [][ /\ ExecuteStep =>
           /\ UNCHANGED cycleVars
           /\ IF FitsInteger(res'.opportunityId) THEN RecordsOne
              ELSE UNCHANGED <<txs, nextTxId>>
      /\ ~ExecuteStep => UNCHANGED <<txs, nextTxId>>
      /\ NoneLost ]_vars

\* two executions of opportunity 1 are recorded and answered while a cycle that
\* has stored opportunity 1 is between its two inserts
C23_Witness ==
  /\ cyc[1].pc = "insert" /\ cyc[1].idx = 2
  /\ \E o \in opps : o.id = 1
  /\ res.route = "execute" /\ res.status = 200
  /\ \E t, u \in txs : t.id = 1 /\ u.id = 2 /\ t.opportunityId = 1 /\ u.opportunityId = 1

\* call c ends in the catch of calculateArbitrageOpportunities: it ends without
\* having gone through its candidates
FailStep(c) ==
  /\ cyc[c].pc # "idle"
  /\ cyc'[c].pc = "idle"
  /\ \/ cyc[c].pc = "fetch"
     \/ cyc[c].pc = "clear" /\ Candidates(cyc[c].prices, cyc[c].tradingPairs) # <<>>
     \/ cyc[c].pc = "insert" /\ opps' = opps

\* the next callback of the timer finds the timer set and a call to start
TimerCanFire == interval /\ \E d \in Cycles : FreeSlot(d)

\* C24: the step in which a cycle fails (its fetch, its delete or one of its
\* inserts throws) changes no stored opportunity and no transaction, leaves the
\* timer as it was, so that the next callback starts a cycle, and leaves the
\* listing and the stats as they were; every insert of a cycle that does not
\* fail, whatever failed before it, stores the candidate whose turn it is.
C24_ErrorContained ==
  [][\A c \in Cycles :
       /\ FailStep(c) =>
            /\ opps' = opps /\ txs' = txs
            /\ interval' = interval
            /\ interval => TimerCanFire'
            /\ Listing' = Listing
            /\ getStatsOverview' = getStatsOverview
       /\ (cyc[c].pc = "insert" /\ cyc'[c] # cyc[c] /\ ~FailStep(c)) =>
            \A cands \in {Candidates(cyc[c].prices, cyc[c].tradingPairs)} :
              CreatesFor(cands[cyc[c].idx])]_vars

\* every cycle here has two candidates: a cycle has ended after one insert
\* (its second one failed), the timer is still set and another cycle has stored
\* its first candidate an hour later
C24_Witness ==
  /\ interval
  /\ \E c \in Cycles :
       /\ cyc[c].pc = "insert" /\ cyc[c].idx = 2
       /\ \A d \in Cycles \ {c} : cyc[d].pc = "idle"
  /\ \E o, q \in opps : o.id = 1 /\ q.id = 2 /\ o.createdAt = 0 /\ q.createdAt = OneHourMs

\* a call starts: by the timer, or by a refresh request
CycleStarts == \E c \in Cycles : cyc[c].pc = "idle" /\ cyc'[c].pc # "idle"

\* C25: once the close event has been handled the timer is cleared, and stays
\* so, and no call of the detection cycle is started any more (the calls in
\* flight go on).
C25_ClosedStopsTimer ==
  [][ /\ closed' => ~interval'
      /\ closed => (closed' /\ ~CycleStarts) ]_vars

\* the server has closed and an hour has gone by: a call is still between its
\* two inserts and the other slot is free, so that a callback of the timer
\* would have started a call
C25_Witness ==
  /\ closed /\ ~interval
  /\ now = OneHourMs
  /\ \E c \in Cycles : cyc[c].pc = "insert" /\ cyc[c].idx = 2
  /\ \E d \in Cycles : FreeSlot(d)
  /\ \A o \in opps : o.createdAt = 0

\* no call of the detection cycle holds quotes: each is idle or waiting for its
\* fetch
NoQuotes == \A c \in Cycles : cyc[c].pc \in {"idle", "fetch"}

\* C26: a step removes a stored opportunity only if it is the delete of a cycle
\* that holds the quotes of its fetch, and no step changes one; while no cycle
\* holds quotes (the fetches fail, requests of the listing, the stats, execute
\* and the settings are served, hours go by) the store and the listing stay as
\* they are, expired opportunities included.
C26_RemovedOnlyAfterFetch ==
  [][ /\ (\E o \in opps : o \notin opps') =>
           \E c \in Cycles : cyc[c].pc = "clear" /\ cyc[c].prices # <<>> /\ cyc'[c].pc # "clear"
      /\ RowsUnchanged
      /\ (NoQuotes /\ NoQuotes') =>
           (opps' = opps /\ Listing' = Listing
              /\ getStatsOverview'.activeOpportunities = getStatsOverview.activeOpportunities) ]_vars

\* a fetch has just failed two hours after two opportunities were stored; an
\* execution is recorded and the settings are stored; both opportunities are
\* still listed
C26_Witness ==
  /\ skipped
  /\ txs # {} /\ settings # {}
  /\ Cardinality(opps) = 2
  /\ \A o \in opps : o.createdAt + 2 * OneHourMs = now /\ o \in Listing

\* the row a cycle over the quotes 101600 (every exchange but the last) and
\* 100000 (the last exchange) and a gas estimate of 2 stores for its candidate
\* number idx: margin 1.60, profit 16, executable
SameQuotesRow(idx, id, at) ==
  [id |-> id,
   tradingPairId |-> ((idx - 1) \div (NumExchanges - 1)) + 1,
   exchangeAId |-> ((idx - 1) % (NumExchanges - 1)) + 1,
   exchangeBId |-> NumExchanges,
   priceA |-> Num(BasePrice + 1600, 0),
   priceB |-> Num(BasePrice, 0),
   profitMargin |-> Num(1, 60),
   estimatedProfit |-> Num(16, 0),
   gasEstimate |-> Num(2, 0),
   isExecutable |-> TRUE,
   createdAt |-> at]

\* a step of a request to /api/settings
SettingsStep == settingsVars' # settingsVars \/ (res'.route = "settings" /\ res' # res)

\* C27: whatever settings are stored (none, or minProfitThreshold 2 and
\* autoExecuteEnabled), a cycle over the same quotes and gas estimate goes
\* through the same candidates and stores the same rows, executable and with
\* the same estimatedProfit; a step of a cycle records no transaction and
\* changes no settings, and a step of a settings request changes no
\* opportunity, no cycle and no transaction.
C27_DetectionIgnoresSettings ==
  [][ /\ SettingsStep => UNCHANGED <<opps, nextOppId, cyc, txs, nextTxId>>
      /\ \A c \in Cycles :
           cyc'[c] # cyc[c] =>
             /\ UNCHANGED <<txs, nextTxId, settingsVars>>
             /\ cyc[c].pc = "clear" => (cyc'[c].pc = "insert" /\ cyc'[c].idx = 1)
             /\ cyc[c].pc = "insert" =>
                  opps' = opps \cup {SameQuotesRow(cyc[c].idx, nextOppId, now)} ]_vars

\* an executable opportunity of margin 1.60 has been stored an hour after the
\* settings took minProfitThreshold 2 with autoExecuteEnabled, and no
\* transaction is recorded
C27_Witness ==
  /\ txs = {}
  /\ \E row \in settings :
       /\ row.minProfitThreshold = Num(2, 0) /\ row.autoExecuteEnabled
       /\ \E o \in opps :
            o.isExecutable /\ o.profitMargin = Num(1, 60) /\ o.createdAt > row.updatedAt

\* o and q are opportunities of one trading pair and one pair of exchanges
SameVenues(o, q) ==
  /\ o.tradingPairId = q.tradingPairId
  /\ o.exchangeAId = q.exchangeAId
  /\ o.exchangeBId = q.exchangeBId

\* C28: every insert of a cycle adds one record under a new id, whether or not
\* an opportunity of the same trading pair and exchanges is stored; while no
\* opportunity can have left the retention window the store holds as many
\* opportunities as inserts were made; a cycle with no candidate ends after its
\* delete, having stored nothing, like any other.
C28_NoDeduplication ==
  [][ /\ \A c \in Cycles :
           /\ (cyc[c].pc = "insert" /\ cyc'[c] # cyc[c]) =>
                /\ Cardinality(opps') = Cardinality(opps) + 1
                /\ opps \subseteq opps'
                /\ \A o \in opps' \ opps : \A q \in opps : o.id # q.id
           /\ (cyc[c].pc = "clear" /\ cyc'[c] # cyc[c]
                 /\ Candidates(cyc[c].prices, cyc[c].tradingPairs) = <<>>) =>
                /\ cyc'[c] = Idle
                /\ opps' = clearOldOpportunities(opps, now)
                /\ nextOppId' = nextOppId
      /\ now' <= OneHourMs => Cardinality(opps') = nextOppId' - 1 ]_vars

\* within the first hour two opportunities of one trading pair and one pair of
\* exchanges are stored under two ids, at the same prices
C28_Witness ==
  /\ now <= OneHourMs
  /\ \E o, q \in opps :
       o.id # q.id /\ SameVenues(o, q) /\ o.priceA = q.priceA /\ o.priceB = q.priceB

\* C29: every stored opportunity has the id of a stored trading pair and the
\* ids of two stored, active exchanges (never the id of no exchange), so that
\* the three joins of the listing find their rows.
C29_ReferentialIntegrity ==
  \A o \in opps :
    /\ \E p \in pairs : p.id = o.tradingPairId
    /\ \E e \in exchangeRows : e.id = o.exchangeAId /\ e.isActive
    /\ \E e \in exchangeRows : e.id = o.exchangeBId /\ e.isActive
    /\ o.exchangeAId # NoExchange.id /\ o.exchangeBId # NoExchange.id
    /\ Details(o).tradingPair # NoValue
    /\ Details(o).exchangeA # NoValue
    /\ Details(o).exchangeB # NoValue

\* opportunities of the second trading pair between the first and the last
\* exchange and between the second and the last are listed with their joins
C29_Witness ==
  /\ \E o \in Listing :
       /\ Details(o).tradingPair = Some([id |-> 2, baseSymbol |-> PairSymbols[2], isActive |-> TRUE])
       /\ Details(o).exchangeA[1].name = ExchangeNames[1]
       /\ Details(o).exchangeB[1].name = ExchangeNames[NumExchanges]
  /\ \E o \in Listing : Details(o).exchangeA[1].name = ExchangeNames[2]

====
